---- MODULE Spec2Model ----
(***************************************************************************)
(* Model of app.py, the Streamlit "Geospatial Location Visualizer":        *)
(* validate_coordinates, create_folium_map and the rerun loop of main().   *)
(*                                                                         *)
(* Representation.                                                         *)
(*  - A text (a column name, a CSV cell) is a sequence of one-character    *)
(*    strings, so that lower(), `in` and float() work on its characters.   *)
(*  - A number is an integer count of 1e-7 degrees: Deg(90) is 90.0 and    *)
(*    Deg(90) + 1 is 90.0000001.                                           *)
(*  - A cell value is a record [k, v, s]: k is "num" (v the number),       *)
(*    "str" (s the text), "nan" (the missing marker, a float NaN),         *)
(*    "inf" (v the sign) or "none" (Python None).                          *)
(***************************************************************************)
EXTENDS Integers, Sequences, FiniteSets, TLC

VARIABLES uploaded_file, lat_choice, lon_choice, cluster_box,
          session_state, out, map_calls, validate_calls

vars == <<uploaded_file, lat_choice, lon_choice, cluster_box,
          session_state, out, map_calls, validate_calls>>

(***************************************************************************)
(* Bound of the model: the number of data rows of an uploaded CSV file.    *)
(***************************************************************************)
MaxRows == 2

----------------------------------------------------------------------------
(* Numbers and cell values *)

Deg(d) == d * 10000000

Num(n) == [k |-> "num", v |-> n, s |-> <<>>]
Str(t) == [k |-> "str", v |-> 0, s |-> t]
NaN == [k |-> "nan", v |-> 0, s |-> <<>>]
Inf(sign) == [k |-> "inf", v |-> sign, s |-> <<>>]
None == [k |-> "none", v |-> 0, s |-> <<>>]

----------------------------------------------------------------------------
(* Texts *)

\* a function over 1..n as the sequence of its values
AsList(f) == f \o <<>>

\* the lowercase letter of each uppercase letter
LowerOf ==
    [ A |-> "a", B |-> "b", C |-> "c", D |-> "d", E |-> "e", F |-> "f", G |-> "g",
      H |-> "h", I |-> "i", J |-> "j", K |-> "k", L |-> "l", M |-> "m", N |-> "n",
      O |-> "o", P |-> "p", Q |-> "q", R |-> "r", S |-> "s", T |-> "t", U |-> "u",
      V |-> "v", W |-> "w", X |-> "x", Y |-> "y", Z |-> "z" ]

\* str.lower() on one character
LowerChar(c) == IF c \in DOMAIN LowerOf THEN LowerOf[c] ELSE c

\* str.lower()
Lower(t) == AsList([i \in 1..Len(t) |-> LowerChar(t[i])])

\* term in t  (substring test)
Contains(term, t) ==
    \E i \in 1..(Len(t) - Len(term) + 1) : SubSeq(t, i, i + Len(term) - 1) = term

DigitChars == <<"0","1","2","3","4","5","6","7","8","9">>

IsDigit(c) == \E i \in 1..10 : DigitChars[i] = c

DigitVal(c) == (CHOOSE i \in 1..10 : DigitChars[i] = c) - 1

\* a digit group of a float literal: digits, with single underscores between
\* digits when the parser accepts them (Python's float() does)
DigitGroupOK(t, underscores) ==
    /\ Len(t) > 0
    /\ \A i \in 1..Len(t) :
          \/ IsDigit(t[i])
          \/ /\ underscores
             /\ t[i] = "_"
             /\ i > 1 /\ i < Len(t)
             /\ IsDigit(t[i-1]) /\ IsDigit(t[i+1])

RECURSIVE StripUnderscores(_)
StripUnderscores(t) ==
    IF t = <<>> THEN <<>>
    ELSE IF Head(t) = "_" THEN StripUnderscores(Tail(t))
    ELSE <<Head(t)>> \o StripUnderscores(Tail(t))

RECURSIVE Pow10(_)
Pow10(n) == IF n = 0 THEN 1 ELSE 10 * Pow10(n - 1)

\* value of a digit string as a natural number
RECURSIVE IntDigits(_)
IntDigits(t) ==
    IF t = <<>> THEN 0
    ELSE IntDigits(SubSeq(t, 1, Len(t) - 1)) * 10 + DigitVal(t[Len(t)])

\* value of the digits after the decimal point, in units of 1e-7
\* (the texts of the model carry at most seven of them)
RECURSIVE FracDigits(_, _)
FracDigits(t, place) ==
    IF t = <<>> \/ place > 7 THEN 0
    ELSE DigitVal(Head(t)) * Pow10(7 - place) + FracDigits(Tail(t), place + 1)

DotIndex(t) ==
    IF \E i \in 1..Len(t) : t[i] = "."
    THEN CHOOSE i \in 1..Len(t) : t[i] = "." /\ \A j \in 1..(i-1) : t[j] # "."
    ELSE 0

\* the text before the decimal point, and the text after it
IntPart(t) == IF DotIndex(t) = 0 THEN t ELSE SubSeq(t, 1, DotIndex(t) - 1)
FracPart(t) == IF DotIndex(t) = 0 THEN <<>> ELSE SubSeq(t, DotIndex(t) + 1, Len(t))

\* a decimal literal given as its two parts: [ok, val] with val a cell value
ParseDecimal(ip, fp, underscores) ==
    IF /\ ip = <<>> \/ DigitGroupOK(ip, underscores)
       /\ fp = <<>> \/ DigitGroupOK(fp, underscores)
       /\ ip # <<>> \/ fp # <<>>
    THEN [ok |-> TRUE,
          val |-> Num(IntDigits(StripUnderscores(ip)) * Pow10(7)
                      + FracDigits(StripUnderscores(fp), 1))]
    ELSE [ok |-> FALSE, val |-> NaN]

\* the unsigned part of a float literal, low its lowercased text
ParseUnsigned(t, low, underscores) ==
    IF low = <<"n","a","n">> THEN [ok |-> TRUE, val |-> NaN]
    ELSE IF low = <<"i","n","f">> \/ low = <<"i","n","f","i","n","i","t","y">>
         THEN [ok |-> TRUE, val |-> Inf(1)]
    ELSE ParseDecimal(IntPart(t), FracPart(t), underscores)

\* the parse p of the unsigned part with the sign applied
Signed(neg, p) ==
    IF ~p.ok \/ ~neg \/ p.val.k = "nan" THEN p
    ELSE [ok |-> TRUE, val |-> [p.val EXCEPT !.v = -p.val.v]]

\* the text after an optional sign
Unsigned(t) ==
    IF Len(t) > 0 /\ (t[1] = "-" \/ t[1] = "+") THEN Tail(t) ELSE t

\* a float literal with an optional sign
ParseFloat(t, underscores) ==
    Signed(Len(t) > 0 /\ t[1] = "-",
           ParseUnsigned(Unsigned(t), Lower(Unsigned(t)), underscores))

----------------------------------------------------------------------------
(* float(x): [exc, val]; exc is "" or the exception raised *)

\* float() of a text, p its parse
FloatOfText(p) ==
    IF p.ok THEN [exc |-> "", val |-> p.val]
    ELSE [exc |-> "ValueError", val |-> NaN]

PyFloat(x) ==
    IF x.k = "none" THEN [exc |-> "TypeError", val |-> NaN]
    ELSE IF x.k = "str" THEN FloatOfText(ParseFloat(x.s, TRUE))
    ELSE [exc |-> "", val |-> x]

\* a <= x <= b on floats: every comparison with NaN is false
FloatBetween(a, x, b) ==
    /\ x.k = "num"
    /\ a <= x.v /\ x.v <= b

\* the exceptions the except clause of validate_coordinates catches
Caught == {"ValueError", "TypeError"}

\* TryBody with the range checked by < instead of <=
TryBodyExclusive(a, b) ==
    IF a.exc # "" THEN [raised |-> a.exc \notin Caught, ret |-> FALSE]
    ELSE IF b.exc # "" THEN [raised |-> b.exc \notin Caught, ret |-> FALSE]
    ELSE [raised |-> FALSE,
          ret |-> /\ a.val.k = "num" /\ b.val.k = "num"
                  /\ Deg(-90) < a.val.v /\ a.val.v < Deg(90)
                  /\ Deg(-180) < b.val.v /\ b.val.v < Deg(180)]

\* the body of the try block, a and b the two float() calls: [raised, ret];
\* an exception the except clause does not catch leaves the function
TryBody(a, b) ==
    IF a.exc # "" THEN [raised |-> a.exc \notin Caught, ret |-> FALSE]
    ELSE IF b.exc # "" THEN [raised |-> b.exc \notin Caught, ret |-> FALSE]
    ELSE IF ~FloatBetween(Deg(-90), a.val, Deg(90))
            \/ ~FloatBetween(Deg(-180), b.val, Deg(180))
         THEN [raised |-> FALSE, ret |-> FALSE]
    ELSE [raised |-> FALSE, ret |-> TRUE]

\* validate_coordinates(lat, lon): [raised, ret]
validate_coordinates(lat, lon) == TryBody(PyFloat(lat), PyFloat(lon))

----------------------------------------------------------------------------
(* pandas: DataFrames, read_csv, to_numeric *)

\* A DataFrame: its column labels, its index labels and its rows of cell values.
DataFrame(columns, index, rows) ==
    [columns |-> columns, index |-> index, rows |-> rows]

\* pd.DataFrame()
EmptyDataFrame == DataFrame(<<>>, <<>>, <<>>)

\* len(df)
DfLen(df) == Len(df.rows)

\* df.empty: some axis has length 0
DfEmpty(df) == Len(df.columns) = 0 \/ Len(df.rows) = 0

\* name in df / name in row
HasColumn(df, name) == \E j \in 1..Len(df.columns) : df.columns[j] = name

\* df.columns.get_loc(name), 1-based
ColPos(df, name) == CHOOSE j \in 1..Len(df.columns) : df.columns[j] = name

\* df[name]: the column's values, row by row
Column(df, name) == AsList([i \in 1..DfLen(df) |-> df.rows[i][ColPos(df, name)]])

\* df[name] = values: replaces the column in place, or appends a new one
SetColumn(df, name, values) ==
    IF HasColumn(df, name)
    THEN [df EXCEPT !.rows =
            AsList([i \in 1..DfLen(df) |->
                      [df.rows[i] EXCEPT ![ColPos(df, name)] = values[i]]])]
    ELSE [df EXCEPT !.columns = Append(df.columns, name),
                    !.rows = AsList([i \in 1..DfLen(df) |->
                                       Append(df.rows[i], values[i])])]

\* the positions a stable filter keeps, in order
RECURSIVE KeptFrom(_, _, _)
KeptFrom(keep, i, n) ==
    IF i > n THEN <<>>
    ELSE (IF keep[i] THEN <<i>> ELSE <<>>) \o KeptFrom(keep, i + 1, n)

\* the rows at the positions pos, with their index labels
TakeRows(df, pos) ==
    [df EXCEPT !.index = AsList([i \in 1..Len(pos) |-> df.index[pos[i]]]),
               !.rows = AsList([i \in 1..Len(pos) |-> df.rows[pos[i]]])]

\* df[mask]: the rows whose mask is true
FilterRows(df, keep) == TakeRows(df, KeptFrom(keep, 1, DfLen(df)))

\* pd.isna / pd.notna on one cell
IsNA(x) == x.k = "nan" \/ x.k = "none"
NotNA(x) == ~IsNA(x)

\* the texts read_csv reads as the missing marker (those the model's files use,
\* of pandas' default list)
NaTexts == { <<>>, <<"N","A">>, <<"N","a","N">>, <<"n","a","n">>,
             <<"n","u","l","l">>, <<"N","U","L","L">> }

\* read_csv's type inference on one column of texts: a column whose present cells
\* all parse as numbers is numeric, any other keeps its texts
ColumnIsNumeric(texts) ==
    \A i \in 1..Len(texts) :
        texts[i] \in NaTexts \/ ParseFloat(texts[i], FALSE).ok

ReadCell(t, numeric) ==
    IF t \in NaTexts THEN NaN
    ELSE IF numeric THEN ParseFloat(t, FALSE).val
    ELSE Str(t)

\* the cells of a well-formed file, numeric telling the numeric columns
ReadCells(file, numeric) ==
    AsList([i \in 1..Len(file.rows) |->
              AsList([j \in 1..Len(file.columns) |->
                        ReadCell(file.rows[i][j], numeric[j])])])

\* pd.read_csv(uploaded_file): [exc, df]; a file without columns raises
\* EmptyDataError
read_csv(file) ==
    IF Len(file.columns) = 0
    THEN [exc |-> "EmptyDataError", df |-> EmptyDataFrame]
    ELSE [exc |-> "",
          df |-> DataFrame(
                    file.columns,
                    AsList([i \in 1..Len(file.rows) |-> i - 1]),
                    ReadCells(file,
                        AsList([j \in 1..Len(file.columns) |->
                                  ColumnIsNumeric(
                                     [i \in 1..Len(file.rows) |->
                                         file.rows[i][j]])])))]

\* errors='coerce': a text that is no number becomes NaN
Coerce(p) == IF p.ok THEN p.val ELSE NaN

\* pd.to_numeric(x, errors='coerce') on one cell (its parser takes no
\* underscores)
ToNumeric(x) ==
    IF x.k = "str" THEN Coerce(ParseFloat(x.s, FALSE))
    ELSE IF x.k = "none" THEN NaN
    ELSE x

\* DropNA without the dropna
KeepNA(df, names) == df

\* df.dropna(subset=names)
DropNA(df, names) ==
    FilterRows(df, AsList([i \in 1..DfLen(df) |->
                      \A name \in names : NotNA(df.rows[i][ColPos(df, name)])]))

----------------------------------------------------------------------------
(* create_folium_map *)

N_latitude == <<"l","a","t","i","t","u","d","e">>
N_longitude == <<"l","o","n","g","i","t","u","d","e">>
N_postal_code == <<"p","o","s","t","a","l","_","c","o","d","e">>
N_state == <<"s","t","a","t","e">>
N_city == <<"c","i","t","y">>
N_address == <<"a","d","d","r","e","s","s">>

\* an integer that is no coordinate (an index label plus one)
IntVal(n) == [k |-> "int", v |-> n, s |-> <<>>]

\* A sum of numbers, kept exactly as whole degrees plus a rest of 1e-7 degrees
\* in 0 .. 10^7 - 1 (a sum of a column does not fit 32-bit integers in
\* units of 1e-7).
Wide(deg, frac) ==
    [deg |-> deg + (frac \div Pow10(7)), frac |-> frac % Pow10(7)]

RECURSIVE SumDeg(_)
SumDeg(values) ==
    IF values = <<>> THEN 0
    ELSE (Head(values).v \div Pow10(7)) + SumDeg(Tail(values))

RECURSIVE SumFrac(_)
SumFrac(values) ==
    IF values = <<>> THEN 0
    ELSE (Head(values).v % Pow10(7)) + SumFrac(Tail(values))

\* an exact fraction: a mean is kept as sum over count
Rat(num, den) == [num |-> num, den |-> den]

\* Series.mean() of a numeric column without missing values
Mean(values) == Rat(Wide(SumDeg(values), SumFrac(values)), Len(values))

\* Series.min() and Series.max() of such a column
Min(values) ==
    CHOOSE m \in {values[i].v : i \in 1..Len(values)} :
        \A i \in 1..Len(values) : m <= values[i].v
Max(values) ==
    CHOOSE m \in {values[i].v : i \in 1..Len(values)} :
        \A i \in 1..Len(values) : m >= values[i].v

\* one appended element of popup_lines
Line(label, value) == [label |-> label, value |-> value]

\* the line of an optional attribute: present when the row has the column and
\* its value is not missing
Optional(data, i, name, label) ==
    IF HasColumn(data, name) /\ NotNA(data.rows[i][ColPos(data, name)])
    THEN <<Line(label, data.rows[i][ColPos(data, name)])>>
    ELSE <<>>

\* f"{x:.6f}": the number to six decimals, in units of 1e-6 (a seventh decimal
\* of 5 is rounded by the float's binary value; here it goes up)
Fixed6(x) == [k |-> "fixed6", v |-> (x.v + 5) \div 10, s |-> <<>>]

PopupHead(data, i) ==
    << Line("<div>", IntVal(0)),
       Line("Location", IntVal(data.index[i] + 1)),
       Line("Latitude", Fixed6(data.rows[i][ColPos(data, N_latitude)])),
       Line("Longitude", Fixed6(data.rows[i][ColPos(data, N_longitude)])) >>

\* popup_lines of the clustered loop
ClusteredPopup(data, i) ==
    PopupHead(data, i)
    \o Optional(data, i, N_postal_code, "Postal Code")
    \o Optional(data, i, N_state, "State")
    \o Optional(data, i, N_city, "City")
    \o Optional(data, i, N_address, "Address")
    \o <<Line("</div>", IntVal(0))>>

\* popup_lines of the unclustered loop
PlainPopup(data, i) ==
    PopupHead(data, i)
    \o Optional(data, i, N_postal_code, "Postal Code")
    \o Optional(data, i, N_state, "State")
    \o Optional(data, i, N_city, "City")
    \o <<Line("</div>", IntVal(0))>>

\* tooltip_text of the clustered loop
ClusteredTooltip(data, i) ==
    IF Optional(data, i, N_city, "City") # <<>>
    THEN Optional(data, i, N_city, "City")[1]
    ELSE IF Optional(data, i, N_state, "State") # <<>>
         THEN Optional(data, i, N_state, "State")[1]
    ELSE Line("Location", IntVal(data.index[i] + 1))

\* tooltip_text of the unclustered loop
PlainTooltip(data, i) ==
    IF Optional(data, i, N_city, "City") # <<>>
    THEN Optional(data, i, N_city, "City")[1]
    ELSE Line("Location", IntVal(data.index[i] + 1))

\* Marker with the coordinates in the order [longitude, latitude]
MarkerSwapped(data, i, popup, tooltip, color) ==
    [location |-> << data.rows[i][ColPos(data, N_longitude)].v,
                     data.rows[i][ColPos(data, N_latitude)].v >>,
     popup |-> popup, tooltip |-> tooltip, color |-> color]

\* folium.Marker(location, popup, tooltip, icon)
Marker(data, i, popup, tooltip, color) ==
    [location |-> << data.rows[i][ColPos(data, N_latitude)].v,
                     data.rows[i][ColPos(data, N_longitude)].v >>,
     popup |-> popup, tooltip |-> tooltip, color |-> color]

\* UseCluster without the test of the cluster flag
UseClusterAnyway(data, cluster) == DfLen(data) > 1

\* the condition under which the markers go to a MarkerCluster
UseCluster(data, cluster) == cluster /\ DfLen(data) > 1

\* FitBounds taking the first and the last row for the two corners
FitBoundsFirstLast(data) ==
    << << Column(data, N_latitude)[1].v, Column(data, N_longitude)[1].v >>,
       << Column(data, N_latitude)[DfLen(data)].v,
          Column(data, N_longitude)[DfLen(data)].v >> >>

\* the bounds handed to fit_bounds: <<sw, ne>>
FitBounds(data) ==
    << << Min(Column(data, N_latitude)), Min(Column(data, N_longitude)) >>,
       << Max(Column(data, N_latitude)), Max(Column(data, N_longitude)) >> >>

\* folium.Map(location=[20, 0], zoom_start=2)
WorldMap ==
    [location |-> << Rat(Wide(20, 0), 1), Rat(Wide(0, 0), 1) >>, zoom_start |-> 2,
     cluster_groups |-> 0, clustered |-> <<>>, children |-> <<>>,
     fit_bounds |-> <<>>]

\* the centre of the base map
Center(data) ==
    << Mean(Column(data, N_latitude)), Mean(Column(data, N_longitude)) >>

\* create_folium_map(data, cluster): the map with its marker cluster groups, the
\* markers added to the cluster group, the markers added to the map itself, and
\* the fitted bounds
create_folium_map(data, cluster) ==
    IF DfLen(data) = 0 THEN WorldMap
    ELSE LET n == DfLen(data)
         IN  [location |-> Center(data),
              zoom_start |-> IF n < 100 THEN 10 ELSE 8,
              cluster_groups |-> IF UseCluster(data, cluster) THEN 1 ELSE 0,
              clustered |->
                 IF UseCluster(data, cluster)
                 THEN AsList([i \in 1..n |->
                                Marker(data, i, ClusteredPopup(data, i),
                                       ClusteredTooltip(data, i), "blue")])
                 ELSE <<>>,
              children |->
                 IF UseCluster(data, cluster)
                 THEN <<>>
                 ELSE AsList([i \in 1..n |->
                                Marker(data, i, PlainPopup(data, i),
                                       PlainTooltip(data, i), "red")]),
              fit_bounds |-> IF n > 0 THEN FitBounds(data) ELSE <<>>]

----------------------------------------------------------------------------
(* main: the sidebar *)

\* the terms looked for in the lowercased column names
LatTerms == { <<"l","a","t">>, <<"l","a","t","i","t","u","d","e">> }
LonTerms == { <<"l","o","n">>, <<"l","o","n","g">>, <<"l","o","n","g","i","t","u","d","e">>, <<"l","n","g">> }

\* any(term in col.lower() for term in terms)
Matches(col, terms) ==
    LET low == Lower(col) IN \E term \in terms : Contains(term, low)

\* possible_lat_cols / possible_lon_cols: the positions of the matching columns
PossibleCols(df, terms) ==
    { j \in 1..Len(df.columns) : Matches(df.columns[j], terms) }

\* the first of a set of positions
First(possible) == CHOOSE j \in possible : \A m \in possible : j <= m

\* the index the selectbox starts at: get_loc of the first matching column, or
\* the selectbox's own default, its first option
DefaultIndex(df, terms) ==
    IF PossibleCols(df, terms) # {}
    THEN First(PossibleCols(df, terms))
    ELSE 1

\* st.selectbox(options=df.columns, index=...): the option the user picked, or
\* the option at the starting index while the user has picked none (choice 0)
Selectbox(df, terms, choice) ==
    df.columns[IF choice = 0 THEN DefaultIndex(df, terms) ELSE choice]

\* valid_mask: validate_coordinates applied to every row
ValidMask(df, lat_col, lon_col) ==
    AsList([i \in 1..DfLen(df) |->
              validate_coordinates(df.rows[i][ColPos(df, lat_col)],
                                   df.rows[i][ColPos(df, lon_col)])])

\* valid_data[name] = pd.to_numeric(valid_data[col], errors='coerce')
AssignNumeric(valid_data, name, col) ==
    SetColumn(valid_data, name,
              AsList([i \in 1..DfLen(valid_data) |->
                        ToNumeric(valid_data.rows[i][ColPos(valid_data, col)])]))

\* valid_data, from df[valid_mask].copy() to the dropna
Normalize(df, keep, lat_col, lon_col) ==
    DropNA(AssignNumeric(AssignNumeric(FilterRows(df, keep),
                                       N_latitude, lat_col),
                         N_longitude, lon_col),
           {N_latitude, N_longitude})

\* what the sidebar tells of a run in which nothing was validated
NoReport(branch) ==
    [branch |-> branch, lat_col |-> <<>>, lon_col |-> <<>>,
     n_records |-> 0, n_valid |-> 0, n_invalid |-> 0]

\* Kept clearing the session's valid_data
Cleared(old_valid_data, branch) ==
    [valid_data |-> EmptyDataFrame, report |-> NoReport(branch)]

\* the sidebar leaves the session's valid_data alone
Kept(old_valid_data, branch) ==
    [valid_data |-> old_valid_data, report |-> NoReport(branch)]

\* the "Invalid coordinates" count shown
InvalidShown(df, valid_data) == DfLen(df) - DfLen(valid_data)

\* Assigned with the invalid count taken from the mask, (~valid_mask).sum()
AssignedCountingMask(df, lat_col, lon_col, valid_data) ==
    [valid_data |-> valid_data,
     report |-> [branch |-> "processed",
                 lat_col |-> lat_col, lon_col |-> lon_col,
                 n_records |-> DfLen(df),
                 n_valid |-> DfLen(valid_data),
                 n_invalid |->
                    Cardinality({ i \in 1..DfLen(df) :
                        ~validate_coordinates(df.rows[i][ColPos(df, lat_col)],
                                              df.rows[i][ColPos(df, lon_col)]).ret })]]

\* the assignment to the session state and the validation results shown
Assigned(df, lat_col, lon_col, valid_data) ==
    [valid_data |-> valid_data,
     report |-> [branch |-> "processed",
                 lat_col |-> lat_col, lon_col |-> lon_col,
                 n_records |-> DfLen(df),
                 n_valid |-> DfLen(valid_data),
                 n_invalid |-> InvalidShown(df, valid_data)]]

\* from the validation on; an exception leaving validate_coordinates leaves
\* the try block before the assignment
Validated(df, lat_col, lon_col, mask, old_valid_data) ==
    IF \E i \in 1..DfLen(df) : mask[i].raised
    THEN Kept(old_valid_data, "error")
    ELSE Assigned(df, lat_col, lon_col,
                  Normalize(df, AsList([i \in 1..DfLen(df) |-> mask[i].ret]),
                            lat_col, lon_col))

\* from the two selectboxes on
Selected(df, lat_col, lon_col, old_valid_data) ==
    Validated(df, lat_col, lon_col, ValidMask(df, lat_col, lon_col),
              old_valid_data)

\* the try block, r what read_csv gave
TryBlock(r, lat_pick, lon_pick, old_valid_data) ==
    IF r.exc # ""
    THEN Kept(old_valid_data, "error")
    ELSE Selected(r.df, Selectbox(r.df, LatTerms, lat_pick),
                  Selectbox(r.df, LonTerms, lon_pick), old_valid_data)

\* `if uploaded_file is not None: try: ... except Exception: ...`:
\* [valid_data, report] with valid_data the session's value after it
Sidebar(file, lat_pick, lon_pick, old_valid_data) ==
    IF ~file.present
    THEN Kept(old_valid_data, "no_file")
    ELSE TryBlock(read_csv(file), lat_pick, lon_pick, old_valid_data)

----------------------------------------------------------------------------
(* main: one run of the script *)

\* st.session_state.valid_data after the initialisation at the top of main
InitialValidData ==
    IF "valid_data" \in DOMAIN session_state
    THEN session_state.valid_data
    ELSE EmptyDataFrame

\* ShowsMap without the emptiness test
ShowsMapAlways(valid_data) == TRUE

\* whether the main area shows the map (otherwise the welcome screen)
ShowsMap(valid_data) == ~DfEmpty(valid_data)

\* One run of main() with the widgets holding file, the two column picks and
\* the cluster checkbox.
RunMain(file, lat_pick, lon_pick, box) ==
    \E side \in {Sidebar(file, lat_pick, lon_pick, InitialValidData)} :
        /\ uploaded_file' = file
        /\ lat_choice' = lat_pick
        /\ lon_choice' = lon_pick
        /\ cluster_box' = box
        /\ session_state' = [valid_data |-> side.valid_data,
                             cluster_enabled |-> box]
        /\ out' = [report |-> side.report,
                   screen |-> IF ShowsMap(side.valid_data)
                              THEN "map" ELSE "welcome"]
        /\ map_calls' =
              IF ShowsMap(side.valid_data)
              THEN << [data |-> side.valid_data, cluster |-> box,
                       map |-> create_folium_map(side.valid_data, box)] >>
              ELSE <<>>
        /\ UNCHANGED validate_calls

----------------------------------------------------------------------------
(* The uploads of the model *)

NoFile == [present |-> FALSE, columns |-> <<>>, rows |-> <<>>]

\* a file of zero bytes
EmptyFile == [present |-> TRUE, columns |-> <<>>, rows |-> <<>>]

HeaderA == << N_latitude, N_longitude, N_address, N_city >>
RowsA == { << <<"9","0">>, <<"-","1","8","0">>, <<"M","a","i","n"," ","S","t">>, <<"O","s","l","o">> >>,
           << <<"-","4","5",".","2","5">>, <<"1","8","0">>, <<>>, <<"R","o","m","e">> >> }

HeaderB == << <<"c","o","l","A">>, <<"c","o","l","B">> >>
RowsB == { << <<"1","0">>, <<"2","0">> >>,
           << <<"9","0",".","0","0","0","0","0","0","1">>, <<"1","_","0">> >> }

HeaderC == << N_state, <<"L","N","G">>, <<"L","a","t">>, N_postal_code >>
RowsC == { << <<"N","Y">>, <<"-","7","4",".","0","0","6">>, <<"4","0",".","7","1","2","8">>, <<"1","0","1">> >>,
           << <<>>, <<"a","b","c">>, <<"3","4",".","0","5">>, <<"x","9">> >> }

RECURSIVE SeqsUpTo(_, _)
SeqsUpTo(S, n) ==
    IF n = 0 THEN { <<>> }
    ELSE LET shorter == SeqsUpTo(S, n - 1)
         IN  shorter \cup { Append(q, x) : q \in shorter, x \in S }

FilesWith(header, rows) ==
    { [present |-> TRUE, columns |-> header, rows |-> q] : q \in SeqsUpTo(rows, MaxRows) }

Files ==
    {EmptyFile} \cup FilesWith(HeaderA, RowsA) \cup FilesWith(HeaderB, RowsB)
                \cup FilesWith(HeaderC, RowsC)

----------------------------------------------------------------------------
(* The session: every interaction with a widget reruns main *)

Init ==
    /\ uploaded_file = NoFile
    /\ lat_choice = 0
    /\ lon_choice = 0
    /\ cluster_box = TRUE
    /\ session_state = [key \in {} |-> 0]
    /\ out = [report |-> NoReport("none"), screen |-> "none"]
    /\ map_calls = <<>>
    /\ validate_calls = <<>>

\* whether the two column selectboxes are on the page
SelectboxesShown == uploaded_file.present /\ read_csv(uploaded_file).exc = ""

\* a rerun that changes none of the modelled widgets (the page loads, the map
\* style changes)
Rerun == RunMain(uploaded_file, lat_choice, lon_choice, cluster_box)

\* the user uploads a file: the selectboxes are built anew for its columns
Upload(file) == RunMain(file, 0, 0, cluster_box)

\* the user removes the uploaded file
RemoveFile ==
    /\ uploaded_file.present
    /\ RunMain(NoFile, 0, 0, cluster_box)

\* the user picks column j in the "Latitude Column" selectbox
SelectLat(j) ==
    /\ SelectboxesShown
    /\ RunMain(uploaded_file, j, lon_choice, cluster_box)

\* the user picks column j in the "Longitude Column" selectbox
SelectLon(j) ==
    /\ SelectboxesShown
    /\ RunMain(uploaded_file, lat_choice, j, cluster_box)

\* the user toggles the "Cluster Locations" checkbox
ToggleCluster == RunMain(uploaded_file, lat_choice, lon_choice, ~cluster_box)

Next ==
    \/ Rerun
    \/ \E file \in Files : Upload(file)
    \/ RemoveFile
    \/ \E j \in 1..Len(uploaded_file.columns) : SelectLat(j)
    \/ \E j \in 1..Len(uploaded_file.columns) : SelectLon(j)
    \/ ToggleCluster

Spec == Init /\ [][Next]_vars

----------------------------------------------------------------------------
(* validate_coordinates called on its own *)

Candidates ==
    { Num(Deg(90)), Num(Deg(90) + 1), Num(Deg(-90)), Num(Deg(-90) - 1),
      Num(Deg(180)), Num(Deg(180) + 1), Num(Deg(-180)), Num(Deg(-180) - 1),
      Num(0), NaN, None, Inf(1), Inf(-1),
      Str(<<"9","0">>), Str(<<"9","0",".","0","0","0","0","0","0","1">>), Str(<<"-","1","8","0">>), Str(<<"-","1","8","0",".","0","0","0","0","0","0","1">>),
      Str(<<"a","b","c">>), Str(<<"1","_","0">>), Str(<<>>) }

CallValidate(lat, lon) ==
    /\ validate_calls' =
          << [lat |-> lat, lon |-> lon, result |-> validate_coordinates(lat, lon)] >>
    /\ UNCHANGED << uploaded_file, lat_choice, lon_choice, cluster_box,
                    session_state, out, map_calls >>

NextValidate == \E lat \in Candidates, lon \in Candidates : CallValidate(lat, lon)

SpecValidate == Init /\ [][NextValidate]_vars

----------------------------------------------------------------------------
(* create_folium_map called on its own: on pd.DataFrame() and on every        *)
(* validated dataset the sidebar can build                                    *)

MapInputs ==
    {EmptyDataFrame} \cup
    UNION { { Sidebar(file, lat_pick, lon_pick, EmptyDataFrame).valid_data :
                 lat_pick \in 0..Len(file.columns),
                 lon_pick \in 0..Len(file.columns) } : file \in Files }

CallCreateMap(data, cluster) ==
    /\ map_calls' = << [data |-> data, cluster |-> cluster,
                        map |-> create_folium_map(data, cluster)] >>
    /\ UNCHANGED << uploaded_file, lat_choice, lon_choice, cluster_box,
                    session_state, out, validate_calls >>

NextMap == \E data \in MapInputs, cluster \in BOOLEAN : CallCreateMap(data, cluster)

SpecMap == Init /\ [][NextMap]_vars

----------------------------------------------------------------------------
(* Properties *)

\* the session's valid_data as main reads it after its initialisation
ValidDataOf(state) ==
    IF "valid_data" \in DOMAIN state THEN state.valid_data ELSE EmptyDataFrame

\* a cell that is a number within [lo, hi]
NumberIn(x, lo, hi) == x.k = "num" /\ lo <= x.v /\ x.v <= hi

Cell(df, i, name) == df.rows[i][ColPos(df, name)]

\* every row carries a numeric latitude and longitude within range
PointsValid(df) ==
    \A i \in 1..DfLen(df) :
        /\ HasColumn(df, N_latitude) /\ HasColumn(df, N_longitude)
        /\ NumberIn(Cell(df, i, N_latitude), Deg(-90), Deg(90))
        /\ NumberIn(Cell(df, i, N_longitude), Deg(-180), Deg(180))

\* all markers of a map, those of the cluster group first
Markers(m) == m.clustered \o m.children

Processed == out.report.branch = "processed"

\* C1: validate_coordinates never raises, and returns true exactly when both
\* values coerce to floats, the latitude is a number in [-90, 90] and the
\* longitude a number in [-180, 180], the bounds included.
C1_ValidateIffInRange ==
    \A n \in 1..Len(validate_calls) :
        LET call == validate_calls[n]
            a == PyFloat(call.lat)
            b == PyFloat(call.lon)
        IN  /\ ~call.result.raised
            /\ call.result.ret =
                  ( /\ a.exc = "" /\ b.exc = ""
                    /\ NumberIn(a.val, Deg(-90), Deg(90))
                    /\ NumberIn(b.val, Deg(-180), Deg(180)) )
            /\ (a.exc # "" \/ b.exc # "") => ~call.result.ret

\* a call on the boundary values 90 and "-180", accepted
C1_Witness ==
    \E n \in 1..Len(validate_calls) :
        /\ validate_calls[n].lat = Num(Deg(90))
        /\ validate_calls[n].lon = Str(<<"-","1","8","0">>)
        /\ validate_calls[n].result.ret

\* C2: every row of the session's valid_data, and of every dataset handed to
\* create_folium_map, has a numeric latitude in [-90, 90] and a numeric
\* longitude in [-180, 180].
C2_ValidDataInRange ==
    /\ PointsValid(ValidDataOf(session_state))
    /\ \A n \in 1..Len(map_calls) : PointsValid(map_calls[n].data)

\* a validated dataset with a row kept and a row rejected, its latitude read
\* from a column of texts
C2_Witness ==
    /\ Processed
    /\ out.report.lat_col = <<"c","o","l","B">>
    /\ out.report.n_valid >= 1 /\ out.report.n_invalid >= 1
    /\ DfLen(ValidDataOf(session_state)) >= 1

\* the index labels grow strictly: the kept rows are distinct rows of the file,
\* in the file's order
Increasing(index) == \A i \in 1..Len(index), j \in 1..Len(index) :
                        i < j => index[i] < index[j]

\* C3: the valid and the invalid counts shown add up to the number of records
\* of the file; the valid count is the number of rows kept, each a distinct
\* row of the file.
C3_CountsAddUp ==
    Processed =>
        /\ out.report.n_records = Len(uploaded_file.rows)
        /\ out.report.n_valid + out.report.n_invalid = out.report.n_records
        /\ out.report.n_valid = DfLen(ValidDataOf(session_state))
        /\ out.report.n_invalid =
              Cardinality({ i \in 0..(out.report.n_records - 1) :
                  \A k \in 1..out.report.n_valid :
                      ValidDataOf(session_state).index[k] # i })
        /\ Increasing(ValidDataOf(session_state).index)

\* two records, one accepted and one that passes validate_coordinates and is
\* dropped by the dropna
C3_Witness ==
    /\ Processed
    /\ out.report.n_records = 2 /\ out.report.n_valid = 1
    /\ out.report.n_invalid = 1
    /\ out.report.lat_col = <<"c","o","l","B">> /\ out.report.lon_col = <<"c","o","l","A">>

\* the file of the last run as read_csv reads it
LastDf == read_csv(uploaded_file).df

NoNameMatch ==
    /\ PossibleCols(LastDf, LatTerms) = {}
    /\ PossibleCols(LastDf, LonTerms) = {}

\* the columns read as numbers throughout
NumericCols ==
    { j \in 1..Len(LastDf.columns) :
        \A i \in 1..DfLen(LastDf) : LastDf.rows[i][j].k \in {"num", "nan", "inf"} }

\* the case of C4: a processed file with rows, no matching name, at least two
\* numeric columns, and the two selectboxes left at their starting option
InferenceCase ==
    /\ Processed
    /\ lat_choice = 0 /\ lon_choice = 0
    /\ DfLen(LastDf) > 0
    /\ NoNameMatch
    /\ Cardinality(NumericCols) >= 2

\* C4: with no matching name and at least two numeric columns, the first
\* numeric column is the latitude, the second the longitude, and the two
\* differ.
C4_NumericFallback ==
    InferenceCase =>
        LET first == CHOOSE j \in NumericCols : \A m \in NumericCols : j <= m
            second == CHOOSE j \in NumericCols \ {first} :
                         \A m \in NumericCols \ {first} : j <= m
        IN  /\ out.report.lat_col = LastDf.columns[first]
            /\ out.report.lon_col = LastDf.columns[second]
            /\ out.report.lat_col # out.report.lon_col

\* the case of C4 with both selectboxes starting at the first column
C4_Witness ==
    /\ InferenceCase
    /\ out.report.lat_col = <<"c","o","l","A">>
    /\ out.report.lon_col = <<"c","o","l","A">>
    /\ out.report.n_valid >= 1

\* C5: a map of a non-empty dataset carries one marker per row, in the rows'
\* order and at the row's latitude and longitude, and with a cluster group all
\* of them are in it.
C5_OneMarkerPerPoint ==
    \A n \in 1..Len(map_calls) :
        LET data == map_calls[n].data
            m == map_calls[n].map
        IN  DfLen(data) > 0 =>
              /\ Len(Markers(m)) = DfLen(data)
              /\ \A i \in 1..Len(Markers(m)) :
                    /\ Markers(m)[i].location =
                          << Cell(data, i, N_latitude).v,
                             Cell(data, i, N_longitude).v >>
                    /\ Markers(m)[i].popup[2] =
                          Line("Location", IntVal(data.index[i] + 1))
              /\ m.cluster_groups \in {0, 1}
              /\ m.cluster_groups = 1 => m.children = <<>>
              /\ m.cluster_groups = 0 => m.clustered = <<>>

\* a clustered map of two different points
C5_Witness ==
    \E n \in 1..Len(map_calls) :
        /\ map_calls[n].cluster
        /\ map_calls[n].map.cluster_groups = 1
        /\ Len(map_calls[n].map.clustered) = 2
        /\ map_calls[n].map.clustered[1].location
              # map_calls[n].map.clustered[2].location

\* C6: the map of an empty dataset is the world view, centred at (20, 0) with
\* zoom 2 and no fitted bounds; any other map is centred at the mean latitude
\* and longitude and fitted to the least and greatest latitude and longitude,
\* a box that holds every marker.
C6_Viewport ==
    \A n \in 1..Len(map_calls) :
        LET data == map_calls[n].data
            m == map_calls[n].map
        IN  IF DfLen(data) = 0
            THEN /\ m.location = << Rat(Wide(20, 0), 1), Rat(Wide(0, 0), 1) >>
                 /\ m.zoom_start = 2
                 /\ m.fit_bounds = <<>>
                 /\ Markers(m) = <<>>
            ELSE /\ m.location = << Mean(Column(data, N_latitude)),
                                    Mean(Column(data, N_longitude)) >>
                 /\ Len(m.fit_bounds) = 2
                 /\ \A c \in 1..2 :
                       /\ \E i \in 1..DfLen(data) :
                             m.fit_bounds[1][c] = Markers(m)[i].location[c]
                       /\ \E i \in 1..DfLen(data) :
                             m.fit_bounds[2][c] = Markers(m)[i].location[c]
                       /\ \A i \in 1..Len(Markers(m)) :
                             /\ m.fit_bounds[1][c] <= Markers(m)[i].location[c]
                             /\ Markers(m)[i].location[c] <= m.fit_bounds[2][c]

\* a map of two points that differ in latitude and in longitude
C6_Witness ==
    \E n \in 1..Len(map_calls) :
        /\ DfLen(map_calls[n].data) = 2
        /\ map_calls[n].map.fit_bounds[1][1] < map_calls[n].map.fit_bounds[2][1]
        /\ map_calls[n].map.fit_bounds[1][2] < map_calls[n].map.fit_bounds[2][2]

\* the optional popup lines a row calls for, in the fixed order
ExpectedOptional(data, i) ==
    Optional(data, i, N_postal_code, "Postal Code")
    \o Optional(data, i, N_state, "State")
    \o Optional(data, i, N_city, "City")
    \o Optional(data, i, N_address, "Address")

\* C7: in both renderings the popup of a point holds its latitude, its
\* longitude and then the lines of postal code, state, city and address, each
\* exactly when the row has the attribute.
C7_PopupLines ==
    \A n \in 1..Len(map_calls) :
        LET data == map_calls[n].data
            m == map_calls[n].map
        IN  \A i \in 1..Len(Markers(m)) :
              LET popup == Markers(m)[i].popup
              IN  /\ popup[3] = Line("Latitude", Fixed6(Cell(data, i, N_latitude)))
                  /\ popup[4] = Line("Longitude", Fixed6(Cell(data, i, N_longitude)))
                  /\ SubSeq(popup, 5, Len(popup) - 1) = ExpectedOptional(data, i)

\* an unclustered marker of a row that has an address, its popup without the
\* Address line
C7_Witness ==
    \E n \in 1..Len(map_calls) :
        LET data == map_calls[n].data
            m == map_calls[n].map
        IN  \E i \in 1..Len(m.children) :
              /\ Optional(data, i, N_address, "Address") # <<>>
              /\ \A k \in 1..Len(m.children[i].popup) :
                    m.children[i].popup[k].label # "Address"

\* C8: with clustering off no cluster group is made, and every row is a marker
\* of its own added to the map itself.
C8_NoClusterWhenDisabled ==
    \A n \in 1..Len(map_calls) :
        LET data == map_calls[n].data
            m == map_calls[n].map
        IN  ~map_calls[n].cluster =>
              /\ m.cluster_groups = 0
              /\ m.clustered = <<>>
              /\ Len(m.children) = DfLen(data)
              /\ \A i \in 1..Len(m.children) :
                    m.children[i].location =
                       << Cell(data, i, N_latitude).v,
                          Cell(data, i, N_longitude).v >>

\* an unclustered map of two points
C8_Witness ==
    \E n \in 1..Len(map_calls) :
        /\ ~map_calls[n].cluster
        /\ DfLen(map_calls[n].data) = 2
        /\ Len(map_calls[n].map.children) = 2

\* C9: the session's valid_data changes only in a run that processes an
\* uploaded file up to the assignment; a run without a file, or one whose try
\* block raises, leaves it as it was.
C9_ValidDataKept ==
    [][ /\ ValidDataOf(session_state') # ValidDataOf(session_state)
           => out'.report.branch = "processed"
        /\ out'.report.branch \in {"no_file", "error"}
           => ValidDataOf(session_state') = ValidDataOf(session_state) ]_vars

\* a run whose read_csv raised, with the dataset validated earlier still shown
C9_Witness ==
    /\ out.report.branch = "error"
    /\ ~DfEmpty(ValidDataOf(session_state))
    /\ out.screen = "map"

\* C10: a run shows the map exactly when the session's valid_data is not
\* empty, and the welcome screen otherwise; create_folium_map is called only
\* then, on that dataset, and never returns the world view.
C10_MapIffNonEmpty ==
    out.screen # "none" =>
        /\ out.screen \in {"map", "welcome"}
        /\ (out.screen = "map") = ~DfEmpty(ValidDataOf(session_state))
        /\ (out.screen = "map") = (Len(map_calls) = 1)
        /\ (out.screen = "welcome") = (map_calls = <<>>)
        /\ \A n \in 1..Len(map_calls) :
              /\ map_calls[n].data = session_state.valid_data
              /\ DfLen(map_calls[n].data) > 0
              /\ map_calls[n].map # WorldMap

\* a processed file none of whose records is valid: the welcome screen
C10_Witness ==
    /\ Processed
    /\ out.report.n_records > 0
    /\ out.report.n_valid = 0
    /\ out.screen = "welcome"

====
